---- MODULE Spec2Model ----
(***************************************************************************)
(* Model of two AliceVision pipeline drivers:                              *)
(*   - main_LdrToHdrSampling.cpp  (the sampling run, SpecSampling and      *)
(*     SpecPair: two runs over one dataset and one output folder),         *)
(*   - main_meshing.cpp           (the meshing run, SpecMeshing, and the   *)
(*     dense point cloud construction, SpecDense).                         *)
(* Library calls whose code is outside the two drivers are modelled by     *)
(* their possible results.                                                 *)
(***************************************************************************)
EXTENDS Integers, Sequences, FiniteSets, TLC

----------------------------------------------------------------------------
(* Bounds of the model *)

MaxGroups == 3
MaxBrackets == 2
MaxIntrinsics == 2
MaxSamples == 1
MaxPairGroups == 2
MaxCams == 1
MaxMeshPts == 1
MaxSeed == 2
MaxCap == 1
MaxDensity == 2
MaxVertices == 2
MaxCoord == 2
MaxDenseCams == 2

(* Program constants *)

INT_MAX == 2147483647
DefaultRangeStart == -1
DefaultRangeSize == 1
ePartitioningUndefined == 0
ePartitioningSingleBlock == 1
ePartitioningAuto == 2
eRepartitionUndefined == 0
eRepartitionMultiResolution == 1

----------------------------------------------------------------------------
(* Sampling run: state *)

VARIABLES
    sfmData,        \* the input dataset of the sampling runs (shared, read-only)
    files,          \* the output folder: group index -> state of "<groupIdx>_samples.dat"
    optRange,       \* per run: the range selector as given on the command line
    rangeStart,     \* per run: the variable rangeStart
    rangeSize,      \* per run: the variable rangeSize
    groupIdx,       \* per run: the loop variable
    spc,            \* per run: position in aliceVision_main
    status,         \* per run: "running", "EXIT_SUCCESS", "EXIT_FAILURE", "crash"
    outSamples,     \* per run: [res, n] of the last extractSamplesFromImages
    processed,      \* per run: the groups whose loop body was entered, in order
    errorLog,       \* per run: the ALICEVISION_LOG_ERROR messages, in order
    written         \* per run: the groups whose samples file this run wrote

\* Meshing run: state
VARIABLES
    options,        \* the command line of the meshing run, as given
    scene,          \* the input dataset and what the library computes from it
    runNo,          \* 1, or 2 for the re-run on the same inputs
    firstRun,       \* what the first run ended with, kept for the re-run
    mpc,            \* position in aliceVision_main
    exitStatus,     \* "running", "EXIT_SUCCESS", "EXIT_FAILURE" or the exception thrown
    errorMsg,       \* the message of the error that ended the run, "" if none
    partitioningMode,
    repartitionMode,
    meshingFromDepthMaps,
    addLandmarksToTheDensePointCloud,
    sfmLoaded,      \* sfmDataIO::Load has filled sfmData
    mp,             \* the MultiViewParams: [built, seed (userParams delaunaycut.seed)]
    outDirectory,   \* the output directory has been created
    hexah,          \* how the bounding volume was estimated: "none", "DepthMaps", "SfM"
    cams,           \* the camera list of the reconstruction
    denseCloud,     \* the arguments and the result of createDensePointCloud
    graphCutSeed,   \* the seed the graph cut ran with, 0 before it ran
    mesh,           \* the mesh and the length of ptsCams after post-processing
    outputs         \* the output files written

mvars == <<options, scene, runNo, firstRun, mpc, exitStatus, errorMsg, partitioningMode,
           repartitionMode, meshingFromDepthMaps, addLandmarksToTheDensePointCloud,
           sfmLoaded, mp, outDirectory, hexah, cams, denseCloud, graphCutSeed, mesh,
           outputs>>

\* Dense point cloud construction: state
VARIABLES
    dIn,            \* the inputs: the dataset, the vertices, ptsCams, colorizeOutput
    dpc,            \* position in the output part of aliceVision_main
    densePointCloud,\* the SfMData under construction
    meshColors,     \* mesh->colors()
    savedDense      \* what sfmDataIO::Save has written, <<>> before

dvars == <<dIn, dpc, densePointCloud, meshColors, savedDense>>

svars == <<sfmData, files, optRange, rangeStart, rangeSize, groupIdx, spc, status,
           outSamples, processed, errorLog, written>>

vars == <<svars, mvars, dvars>>

SRuns == {1, 2}

\* the mesh before the graph cut has made one
NoMesh == [isNull |-> TRUE, pts |-> 0, tris |-> 0, ptsCams |-> 0]

NoDenseCloud == [created |-> FALSE, sfmData |-> FALSE, fuseParams |-> FALSE,
                 cap |-> <<>>, fusedPerVoxel |-> 0]

NoRun == [exitStatus |-> "none", errorMsg |-> "", seed |-> 0, graphCutSeed |-> 0,
          mesh |-> NoMesh, outputs |-> {}]

\* a dataset without views and landmarks
EmptySfMData == [views |-> <<>>, poses |-> <<>>, intrinsics |-> <<>>, landmarks |-> <<>>]

\* the state of the dense point cloud construction where it is not modelled
DIdle ==
    /\ dIn = [sfmData |-> EmptySfMData, vertices |-> <<>>, ptsCams |-> <<>>,
              colorizeOutput |-> FALSE]
    /\ dpc = "off"
    /\ densePointCloud = EmptySfMData
    /\ meshColors = <<>>
    /\ savedDense = <<>>

\* the state of the meshing run where no meshing run is modelled
MIdle ==
    /\ options = [depthMapsFolder |-> "", partitioning |-> "singleBlock",
                  repartition |-> "multiResolution", estimateSpaceFromSfM |-> TRUE,
                  addLandmarksToTheDensePointCloud |-> FALSE,
                  saveRawDensePointCloud |-> FALSE, seed |-> 0, maxPointsPerVoxel |-> 1]
    /\ scene = [readable |-> FALSE, nbCameras |-> 0, camsInHexah |-> {}, density |-> 0]
    /\ runNo = 1
    /\ firstRun = NoRun
    /\ mpc = "off"
    /\ exitStatus = "running"
    /\ errorMsg = ""
    /\ partitioningMode = ePartitioningSingleBlock
    /\ repartitionMode = eRepartitionMultiResolution
    /\ meshingFromDepthMaps = TRUE
    /\ addLandmarksToTheDensePointCloud = FALSE
    /\ sfmLoaded = FALSE
    /\ mp = [built |-> FALSE, seed |-> 0]
    /\ outDirectory = FALSE
    /\ hexah = "none"
    /\ cams = {}
    /\ denseCloud = NoDenseCloud
    /\ graphCutSeed = 0
    /\ mesh = NoMesh
    /\ outputs = {}

----------------------------------------------------------------------------
(* Integer arithmetic of the range selection *)

\* int + int with two's complement wrap-around
Add32(a, b) ==
    IF b > 0 /\ a > INT_MAX - b
    THEN (a - INT_MAX - 1) + (b - INT_MAX - 1)
    ELSE IF b < 0 /\ a < (-INT_MAX - 1) - b
         THEN (a + INT_MAX + 1) + (b + INT_MAX + 1)
         ELSE a + b

\* the comparison made in the signed type
GtSizeTSigned(x, n) == x > n

\* (std::size_t)x > n, for an int x and a container size n: a negative int
\* converts to a value above every container size
GtSizeT(x, n) == IF x < 0 THEN TRUE ELSE x > n

\* i < (std::size_t)x, for a std::size_t i and an int x
LtSizeT(i, x) == IF x < 0 THEN TRUE ELSE i < x

\* rangeStart + rangeSize > groupedViews.size().  The sum is an int sum; on
\* signed overflow the behaviour is undefined: the build either wraps or keeps
\* the mathematical sum in a wider register.  The set of possible outcomes.
RangeEndBeyond(rs, rz, n) ==
    IF rz > 0 /\ rs > INT_MAX - rz
    THEN {GtSizeT(Add32(rs, rz), n), rz > n - rs}
    ELSE {GtSizeT(rs + rz, n)}

----------------------------------------------------------------------------
(* Sampling run: inputs *)

RECURSIVE SeqsUpTo(_, _)
SeqsUpTo(S, n) ==
    IF n = 0 THEN {<<>>}
    ELSE LET shorter == SeqsUpTo(S, n - 1)
         IN shorter \cup {Append(s, x) : s \in {t \in shorter : Len(t) = n - 1}, x \in S}

\* a dataset: whether Load succeeds, the number of intrinsics, whether
\* estimateBracketsFromSfmData succeeds and the sizes of the groups it makes
Datasets ==
    {[readable |-> FALSE, intrinsics |-> 1, bracketsOk |-> FALSE, groupedViews |-> <<>>]}
    \cup {[readable |-> TRUE, intrinsics |-> k, bracketsOk |-> FALSE, groupedViews |-> <<>>] :
            k \in 0..MaxIntrinsics}
    \cup {[readable |-> TRUE, intrinsics |-> k, bracketsOk |-> TRUE, groupedViews |-> g] :
            k \in 0..MaxIntrinsics, g \in SeqsUpTo(1..MaxBrackets, MaxGroups)}

RangeStarts == (-2 .. MaxGroups + 1) \cup {INT_MAX}
RangeSizes == (-1 .. MaxGroups + 1) \cup {INT_MAX}

Groups == 0 .. MaxGroups - 1

NoFile == [exists |-> FALSE, openedBy |-> {}, content |-> <<>>]

NbGroups == Len(sfmData.groupedViews)

----------------------------------------------------------------------------
(* Sampling run: the steps of aliceVision_main *)

SReturn(r, code) ==
    /\ spc' = [spc EXCEPT ![r] = "done"]
    /\ status' = [status EXCEPT ![r] = code]

SGoto(r, where) ==
    /\ spc' = [spc EXCEPT ![r] = where]
    /\ UNCHANGED status

\* ALICEVISION_LOG_ERROR
SLog(r, text) ==
    errorLog' = [errorLog EXCEPT ![r] = Append(@, [msg |-> text, group |-> -1])]

\* Read sfm data
LoadSfMData(r) ==
    /\ spc[r] = "load"
    /\ IF ~sfmData.readable
       THEN SReturn(r, "EXIT_FAILURE") /\ SLog(r, "The input SfMData file cannot be read")
       ELSE SGoto(r, "intrinsics") /\ UNCHANGED errorLog
    /\ UNCHANGED <<mvars, dvars>>
    /\ UNCHANGED <<sfmData, files, optRange, rangeStart, rangeSize, groupIdx,
                   outSamples, processed, written>>

\* Make sure there is only one kind of image in dataset, then read width and
\* height from the first intrinsic.  With no intrinsic, begin() is end() and
\* dereferencing it is undefined: the run crashes or goes on with any value.
CheckIntrinsics(r) ==
    /\ spc[r] = "intrinsics"
    /\ IF sfmData.intrinsics > 1
       THEN SReturn(r, "EXIT_FAILURE") /\ SLog(r, "Only one intrinsic allowed")
       ELSE /\ IF sfmData.intrinsics = 0
               THEN \/ SReturn(r, "crash")
                    \/ SGoto(r, "groups")
               ELSE SGoto(r, "groups")
            /\ UNCHANGED errorLog
    /\ UNCHANGED <<mvars, dvars>>
    /\ UNCHANGED <<sfmData, files, optRange, rangeStart, rangeSize, groupIdx,
                   outSamples, processed, written>>

\* Make groups
EstimateBrackets(r) ==
    /\ spc[r] = "groups"
    /\ IF ~sfmData.bracketsOk
       THEN SReturn(r, "EXIT_FAILURE")
       ELSE SGoto(r, "sizes")
    /\ UNCHANGED <<mvars, dvars>>
    /\ UNCHANGED <<sfmData, files, optRange, rangeStart, rangeSize, groupIdx,
                   outSamples, processed, errorLog, written>>

SizeOfGroups == {sfmData.groupedViews[i] : i \in 1..NbGroups}

\* a check that lets groups of different sizes through
CheckGroupSizesLax(r) ==
    /\ spc[r] = "sizes"
    /\ IF SizeOfGroups = {1}
       THEN SReturn(r, "EXIT_SUCCESS")
       ELSE SGoto(r, "range")
    /\ UNCHANGED <<mvars, dvars>>
    /\ UNCHANGED <<sfmData, files, optRange, rangeStart, rangeSize, groupIdx,
                   outSamples, processed, errorLog, written>>

CheckGroupSizes(r) ==
    /\ spc[r] = "sizes"
    /\ IF Cardinality(SizeOfGroups) = 1
       THEN /\ IF SizeOfGroups = {1}
               THEN SReturn(r, "EXIT_SUCCESS")
               ELSE SGoto(r, "range")
            /\ UNCHANGED errorLog
       ELSE /\ SReturn(r, "EXIT_FAILURE")
            /\ SLog(r, "Exposure groups do not have a consistent number of brackets")
    /\ UNCHANGED <<mvars, dvars>>
    /\ UNCHANGED <<sfmData, files, optRange, rangeStart, rangeSize, groupIdx,
                   outSamples, processed, written>>

\* Define range to compute, and the initialisation of the for loop
DefineRange(r) ==
    /\ spc[r] = "range"
    /\ IF rangeStart[r] # -1
       THEN IF rangeStart[r] < 0 \/ rangeSize[r] < 0 \/ GtSizeT(rangeStart[r], NbGroups)
            THEN /\ SReturn(r, "EXIT_FAILURE")
                 /\ SLog(r, "Range is incorrect")
                 /\ UNCHANGED <<rangeStart, rangeSize, groupIdx>>
            ELSE /\ \E beyond \in RangeEndBeyond(rangeStart[r], rangeSize[r], NbGroups) :
                       rangeSize' = [rangeSize EXCEPT ![r] =
                                        IF beyond THEN NbGroups - rangeStart[r] ELSE @]
                 /\ groupIdx' = [groupIdx EXCEPT ![r] = rangeStart[r]]
                 /\ SGoto(r, "loop")
                 /\ UNCHANGED <<rangeStart, errorLog>>
       ELSE /\ rangeStart' = [rangeStart EXCEPT ![r] = 0]
            /\ rangeSize' = [rangeSize EXCEPT ![r] = NbGroups]
            /\ groupIdx' = [groupIdx EXCEPT ![r] = 0]
            /\ SGoto(r, "loop")
            /\ UNCHANGED errorLog
    /\ UNCHANGED <<mvars, dvars>>
    /\ UNCHANGED <<sfmData, files, optRange, outSamples, processed, written>>

\* a loop that runs one group too far
LoopConditionInclusive(i, rs, rz) == LtSizeT(i, Add32(Add32(rs, rz), 1))

\* the condition of the for loop: groupIdx < rangeStart + rangeSize
LoopCondition(i, rs, rz) == LtSizeT(i, Add32(rs, rz))

\* the loop test, and the access groupedViews[groupIdx]: an index outside the
\* vector is undefined behaviour, modelled as a crash
LoopTest(r) ==
    /\ spc[r] = "loop"
    /\ IF LoopCondition(groupIdx[r], rangeStart[r], rangeSize[r])
       THEN IF groupIdx[r] < NbGroups
            THEN /\ SGoto(r, "extract")
                 /\ processed' = [processed EXCEPT ![r] = Append(@, groupIdx[r])]
            ELSE /\ SReturn(r, "crash")
                 /\ UNCHANGED processed
       ELSE /\ SReturn(r, "EXIT_SUCCESS")
            /\ UNCHANGED processed
    /\ UNCHANGED <<mvars, dvars>>
    /\ UNCHANGED <<sfmData, files, optRange, rangeStart, rangeSize, groupIdx,
                   outSamples, errorLog, written>>

\* an extraction whose failure ends the run
ExtractSamplesAbort(r) ==
    /\ spc[r] = "extract"
    /\ \E res \in BOOLEAN, n \in 0..MaxSamples :
          /\ outSamples' = [outSamples EXCEPT ![r] = [res |-> res, n |-> n]]
          /\ IF res
             THEN SGoto(r, "open") /\ UNCHANGED errorLog
             ELSE /\ SReturn(r, "EXIT_FAILURE")
                  /\ errorLog' = [errorLog EXCEPT ![r] =
                                     Append(@, [msg |-> "Error while extracting samples",
                                                group |-> groupIdx[r]])]
    /\ UNCHANGED <<mvars, dvars>>
    /\ UNCHANGED <<sfmData, files, optRange, rangeStart, rangeSize, groupIdx,
                   processed, written>>

\* extractSamplesFromImages: fails or succeeds, leaving any number of samples;
\* a failure is logged and the run goes on to the store
ExtractSamples(r) ==
    /\ spc[r] = "extract"
    /\ \E res \in BOOLEAN, n \in 0..MaxSamples :
          /\ outSamples' = [outSamples EXCEPT ![r] = [res |-> res, n |-> n]]
          /\ errorLog' = [errorLog EXCEPT ![r] =
                             IF res THEN @
                             ELSE Append(@, [msg |-> "Error while extracting samples",
                                             group |-> groupIdx[r]])]
    /\ SGoto(r, "open")
    /\ UNCHANGED <<mvars, dvars>>
    /\ UNCHANGED <<sfmData, files, optRange, rangeStart, rangeSize, groupIdx,
                   processed, written>>

\* a file name counted from the start of the run's own range
SamplesFileIndexLocal(r) == groupIdx[r] - rangeStart[r]

\* the index in the name of the samples file: std::to_string(groupIdx)
SamplesFileIndex(r) == groupIdx[r]

\* Store to file: std::ofstream creates or truncates the file; when it cannot
\* be opened the run returns EXIT_FAILURE
OpenSamplesFile(r) ==
    /\ spc[r] = "open"
    /\ \E isOpen \in BOOLEAN :
          IF isOpen
          THEN /\ files' = [files EXCEPT ![SamplesFileIndex(r)] =
                              [exists |-> TRUE, openedBy |-> @.openedBy \cup {r},
                               content |-> <<>>]]
               /\ SGoto(r, "write")
               /\ UNCHANGED errorLog
          ELSE /\ SReturn(r, "EXIT_FAILURE")
               /\ errorLog' = [errorLog EXCEPT ![r] =
                                  Append(@, [msg |-> "Impossible to write samples",
                                             group |-> groupIdx[r]])]
               /\ UNCHANGED files
    /\ UNCHANGED <<mvars, dvars>>
    /\ UNCHANGED <<sfmData, optRange, rangeStart, rangeSize, groupIdx,
                   outSamples, processed, written>>

\* the record count followed by the samples, then ++groupIdx
WriteSamples(r) ==
    /\ spc[r] = "write"
    /\ files' = [files EXCEPT ![SamplesFileIndex(r)].content =
                    Append(@, [by |-> r, group |-> groupIdx[r], size |-> outSamples[r].n])]
    /\ written' = [written EXCEPT ![r] = @ \cup {SamplesFileIndex(r)}]
    /\ groupIdx' = [groupIdx EXCEPT ![r] = @ + 1]
    /\ SGoto(r, "loop")
    /\ UNCHANGED <<mvars, dvars>>
    /\ UNCHANGED <<sfmData, optRange, rangeStart, rangeSize,
                   outSamples, processed, errorLog>>

SamplingStep(r) ==
    \/ LoadSfMData(r)
    \/ CheckIntrinsics(r)
    \/ EstimateBrackets(r)
    \/ CheckGroupSizes(r)
    \/ DefineRange(r)
    \/ LoopTest(r)
    \/ ExtractSamples(r)
    \/ OpenSamplesFile(r)
    \/ WriteSamples(r)

NextSampling == \E r \in SRuns : SamplingStep(r)

SInitRun(starts, sizes, active) ==
    /\ optRange \in [SRuns -> [start : starts, size : sizes]]
    /\ \A r \in SRuns \ active : optRange[r] = [start |-> DefaultRangeStart,
                                                 size |-> DefaultRangeSize]
    /\ rangeStart = [r \in SRuns |-> optRange[r].start]
    /\ rangeSize = [r \in SRuns |-> optRange[r].size]
    /\ groupIdx = [r \in SRuns |-> 0]
    /\ spc = [r \in SRuns |-> IF r \in active THEN "load" ELSE "off"]
    /\ status = [r \in SRuns |-> "running"]
    /\ outSamples = [r \in SRuns |-> [res |-> TRUE, n |-> 0]]
    /\ processed = [r \in SRuns |-> <<>>]
    /\ errorLog = [r \in SRuns |-> <<>>]
    /\ written = [r \in SRuns |-> {}]
    /\ files = [g \in Groups |-> NoFile]

\* one sampling run, any dataset, any range selector
InitSampling ==
    /\ MIdle
    /\ DIdle
    /\ sfmData \in Datasets
    /\ SInitRun(RangeStarts \cup {DefaultRangeStart}, RangeSizes \cup {DefaultRangeSize}, {1})

SpecSampling == InitSampling /\ [][NextSampling]_vars

----------------------------------------------------------------------------
(* Sampling run: what the claims speak of *)

Active == {r \in SRuns : spc[r] # "off"}

IsPrefix(p, q) == Len(p) <= Len(q) /\ \A i \in 1..Len(p) : p[i] = q[i]

SeqRange(q) == {q[i] : i \in 1..Len(q)}

\* the dataset passes every input check
GoodDataset ==
    /\ sfmData.readable
    /\ sfmData.intrinsics = 1
    /\ sfmData.bracketsOk
    /\ Cardinality(SizeOfGroups) = 1
    /\ SizeOfGroups # {1}

\* one of the input errors: unreadable dataset, more than one intrinsic,
\* failed bracket estimation, groups without one common size
InputError ==
    \/ ~sfmData.readable
    \/ sfmData.intrinsics > 1
    \/ ~sfmData.bracketsOk
    \/ Cardinality(SizeOfGroups) # 1

\* rangeStart = s with 0 <= s <= G and rangeSize = n >= 0, as given
ValidSelector(r) ==
    /\ optRange[r].start >= 0
    /\ optRange[r].start <= NbGroups
    /\ optRange[r].size >= 0

\* min(s + n, G)
ExpectedEnd(r) ==
    IF optRange[r].size > NbGroups - optRange[r].start
    THEN NbGroups
    ELSE optRange[r].start + optRange[r].size

\* the indices s .. min(s+n, G)-1 in increasing order
ExpectedGroups(r) ==
    [i \in 1..(ExpectedEnd(r) - optRange[r].start) |-> optRange[r].start + i - 1]

ExtractionFailed(r, g) ==
    \E i \in 1..Len(errorLog[r]) :
        errorLog[r][i] = [msg |-> "Error while extracting samples", group |-> g]

\* the run has left the loop body of its last processed group without a file
OpenFailedAtLast(r) ==
    /\ processed[r] # <<>>
    /\ errorLog[r] # <<>>
    /\ errorLog[r][Len(errorLog[r])] =
          [msg |-> "Impossible to write samples", group |-> processed[r][Len(processed[r])]]

\* the groups of processed[r] whose loop body is complete
Completed(r) ==
    IF spc[r] \in {"extract", "open", "write"} \/ (spc[r] = "done" /\ status[r] # "EXIT_SUCCESS")
    THEN SeqRange(SubSeq(processed[r], 1, Len(processed[r]) - 1))
    ELSE SeqRange(processed[r])

\* C3 (as claimed): when sample extraction fails for a group, that group's
\* output is skipped: no samples file exists for, or is written by the run
\* for, a group whose extraction error was logged.
C3_FailedGroupOutputSkipped ==
    \A r \in Active : \A g \in Groups :
        ExtractionFailed(r, g) => (~files[g].exists /\ g \notin written[r])

\* C4 (as claimed): a unit-level failure (extraction failing, or the samples
\* file failing to open) does not abort the batch: every run that entered the
\* loop ends having processed every group of its range.
C4_BatchNeverAborted ==
    \A r \in Active :
        (spc[r] = "done" /\ processed[r] # <<>>) =>
            /\ status[r] = "EXIT_SUCCESS"
            /\ SeqRange(processed[r]) = rangeStart[r] .. (rangeStart[r] + rangeSize[r] - 1)

\* C4 (amended): a failing extraction does not abort the batch: the run goes on
\* to store the group and to the later groups; a run that entered the loop ends
\* either with success, having processed every group of its range, whatever
\* the extractions returned, or with failure at the one group whose samples
\* file could not be opened, the groups after it left unprocessed.
C4_OnlyOpenFailureAborts ==
    \A r \in Active :
        /\ (spc[r] = "done" /\ processed[r] # <<>>) =>
              \/ /\ status[r] = "EXIT_SUCCESS"
                 /\ SeqRange(processed[r]) = rangeStart[r] .. (rangeStart[r] + rangeSize[r] - 1)
              \/ /\ status[r] = "EXIT_FAILURE"
                 /\ OpenFailedAtLast(r)
        /\ \A g \in Groups :
              (ExtractionFailed(r, g) /\ g \in Completed(r)) => g \in written[r]

\* C4 witness: a run ended with success although the extraction of a group
\* before the last one of its range had failed
C4_Witness ==
    /\ spc[1] = "done" /\ status[1] = "EXIT_SUCCESS"
    /\ Len(processed[1]) >= 2
    /\ ExtractionFailed(1, processed[1][1])

\* C5 (as claimed): for groups of one bracket count above 1 and a valid
\* selector, a finished run has processed exactly s .. min(s+n, G)-1 in order
\* and written exactly the samples files of these groups.
C5_ExactRangeProcessed ==
    \A r \in Active :
        (GoodDataset /\ ValidSelector(r) /\ spc[r] = "done") =>
            /\ processed[r] = ExpectedGroups(r)
            /\ written[r] = SeqRange(ExpectedGroups(r))

\* C5 (amended): for groups of one bracket count above 1 and a valid selector,
\* the groups processed are at any time an initial part of s .. min(s+n, G)-1,
\* each once and in increasing order; one samples file named by its group index
\* is written per completed group and none for any other group; the run never
\* crashes; and a run in which every samples file opened (it returns success)
\* has processed exactly s .. min(s+n, G)-1.  A run whose samples file cannot
\* be opened stops at that group.
C5_ExactRangeWhenFilesOpen ==
    \A r \in Active :
        (GoodDataset /\ ValidSelector(r)) =>
            /\ IsPrefix(processed[r], ExpectedGroups(r))
            /\ written[r] = Completed(r)
            /\ status[r] # "crash"
            /\ \A g \in written[r] :
                  /\ files[g].exists
                  /\ Len(files[g].content) = 1
                  /\ files[g].content[1].group = g
            /\ (spc[r] = "done" /\ status[r] = "EXIT_SUCCESS") =>
                  processed[r] = ExpectedGroups(r)
            /\ (spc[r] = "done" /\ status[r] = "EXIT_FAILURE") =>
                  OpenFailedAtLast(r)

\* C5 witness: the scenario rangeStart = 0, rangeSize = 1 over several groups:
\* exactly group 0 processed, exactly one samples file
C5_Witness ==
    /\ GoodDataset /\ NbGroups >= 2
    /\ optRange[1] = [start |-> 0, size |-> 1]
    /\ spc[1] = "done" /\ status[1] = "EXIT_SUCCESS"
    /\ processed[1] = <<0>>
    /\ {g \in Groups : files[g].exists} = {0}

\* C6: every input error (unreadable dataset, more than one intrinsic, failed
\* bracket estimation, groups of inconsistent sizes) ends the run with a
\* non-zero status before any samples file is opened or written, whatever the
\* range selector: no group is processed, no file exists, and a finished run
\* has not returned success.
C6_InputErrorsFailBeforeOutput ==
    InputError =>
        \A r \in Active :
            /\ processed[r] = <<>>
            /\ written[r] = {}
            /\ \A g \in Groups : files[g] = NoFile
            /\ spc[r] \notin {"range", "loop", "extract", "open", "write"}
            /\ spc[r] = "done" => status[r] \in {"EXIT_FAILURE", "crash"}

\* C6 witness: groups of inconsistent sizes with a selector that asks for a
\* group: the run has returned EXIT_FAILURE
C6_Witness ==
    /\ sfmData.readable /\ sfmData.intrinsics = 1 /\ sfmData.bracketsOk
    /\ Cardinality(SizeOfGroups) > 1
    /\ optRange[1] = [start |-> 0, size |-> 1]
    /\ spc[1] = "done" /\ status[1] = "EXIT_FAILURE"

----------------------------------------------------------------------------
(* Two sampling runs over the same dataset and output folder, interleaved *)

\* the datasets that pass every input check: G groups of one bracket count above 1
PairDatasets ==
    {[readable |-> TRUE, intrinsics |-> 1, bracketsOk |-> TRUE,
      groupedViews |-> [i \in 1..G |-> b]] : G \in 1..MaxPairGroups, b \in 2..MaxBrackets}

PairRangeStarts == 0 .. MaxPairGroups
PairRangeSizes == 0 .. MaxPairGroups

\* the two runs are handed index ranges (start, size) that share no index
InitPair ==
    /\ MIdle
    /\ DIdle
    /\ sfmData \in PairDatasets
    /\ SInitRun(PairRangeStarts, PairRangeSizes, SRuns)
    /\ \A g \in 0 .. 2 * MaxPairGroups :
          ~(/\ optRange[1].start <= g /\ g < optRange[1].start + optRange[1].size
            /\ optRange[2].start <= g /\ g < optRange[2].start + optRange[2].size)

SpecPair == InitPair /\ [][NextSampling]_vars

\* the index range (start, size) given to run r
GivenRange(r) == {g \in 0 .. 2 * MaxGroups :
                    optRange[r].start <= g /\ g < optRange[r].start + optRange[r].size}

DisjointRanges == GivenRange(1) \cap GivenRange(2) = {}

CoveringRanges == (0 .. NbGroups - 1) \subseteq (GivenRange(1) \cup GivenRange(2))

\* no samples file is opened or written by both runs, and what a file holds is
\* the one record written by the run whose range holds its group
FilesNotShared ==
    /\ written[1] \cap written[2] = {}
    /\ \A g \in Groups :
          /\ Cardinality(files[g].openedBy) <= 1
          /\ \A r \in files[g].openedBy : g \in GivenRange(r)
          /\ \A r \in SRuns : g \in written[r] =>
                /\ files[g].openedBy = {r}
                /\ Len(files[g].content) = 1
                /\ files[g].content[1].by = r
                /\ files[g].content[1].group = g

EachGroupWrittenOnce ==
    \A g \in 0 .. NbGroups - 1 : Cardinality({r \in SRuns : g \in written[r]}) = 1

\* C7 (as claimed): runs given disjoint ranges share no samples file, each
\* file holds what its own run produced, and when the ranges cover 0..G-1 every
\* group's samples file is written by exactly one run once both runs have ended.
C7_DisjointRunsWriteEachFileOnce ==
    (GoodDataset /\ DisjointRanges) =>
        /\ FilesNotShared
        /\ (CoveringRanges /\ spc[1] = "done" /\ spc[2] = "done") => EachGroupWrittenOnce

\* C7 (amended): runs given disjoint ranges share no samples file in any
\* interleaving, each file holds what its own run produced, and when the ranges
\* cover 0..G-1 and both runs return success (every samples file opened) every
\* group's samples file is written by exactly one run.
C7_DisjointRunsShareNoFile ==
    (GoodDataset /\ DisjointRanges) =>
        /\ FilesNotShared
        /\ (CoveringRanges /\ spc[1] = "done" /\ spc[2] = "done"
              /\ status[1] = "EXIT_SUCCESS" /\ status[2] = "EXIT_SUCCESS") =>
                 EachGroupWrittenOnce

\* C7 witness: two finished runs with disjoint covering ranges, each of which
\* has written a samples file
C7_Witness ==
    /\ GoodDataset /\ DisjointRanges /\ CoveringRanges
    /\ spc[1] = "done" /\ spc[2] = "done"
    /\ status[1] = "EXIT_SUCCESS" /\ status[2] = "EXIT_SUCCESS"
    /\ written[1] # {} /\ written[2] # {}

----------------------------------------------------------------------------
(* Meshing run: option parsing *)

EPartitioning_stringToEnum(s) ==
    IF s = "singleBlock" THEN ePartitioningSingleBlock
    ELSE IF s = "auto" THEN ePartitioningAuto
    ELSE ePartitioningUndefined

ERepartitionMode_stringToEnum(s) ==
    IF s = "multiResolution" THEN eRepartitionMultiResolution
    ELSE eRepartitionUndefined

PartitioningStrings == {"singleBlock", "auto", "octree"}
RepartitionStrings == {"multiResolution", "regularGrid"}
DepthMapsFolders == {"", "depthMaps"}

MeshingOptions ==
    [depthMapsFolder : DepthMapsFolders,
     partitioning : PartitioningStrings,
     repartition : RepartitionStrings,
     estimateSpaceFromSfM : BOOLEAN,
     addLandmarksToTheDensePointCloud : BOOLEAN,
     saveRawDensePointCloud : BOOLEAN,
     seed : 0 .. MaxSeed,
     maxPointsPerVoxel : 1 .. MaxCap]

\* the input dataset: whether Load reads it, its cameras, the cameras that
\* intersect the estimated volume, the depth samples that fall in one voxel
Scenes ==
    {[readable |-> FALSE, nbCameras |-> 0, camsInHexah |-> {}, density |-> 0]}
    \cup {[readable |-> TRUE, nbCameras |-> n, camsInHexah |-> c, density |-> d] :
            n \in 0 .. MaxCams, c \in SUBSET (0 .. MaxCams - 1), d \in 0 .. MaxDensity}

\* the state of the sampling runs where no sampling run is modelled
SIdle ==
    /\ sfmData = [readable |-> FALSE, intrinsics |-> 1, bracketsOk |-> FALSE,
                  groupedViews |-> <<>>]
    /\ SInitRun({DefaultRangeStart}, {DefaultRangeSize}, {})

\* the state after the command line is parsed
MInitRun ==
    /\ mpc = "options"
    /\ exitStatus = "running"
    /\ errorMsg = ""
    /\ partitioningMode = EPartitioning_stringToEnum(options.partitioning)
    /\ repartitionMode = ERepartitionMode_stringToEnum(options.repartition)
    /\ meshingFromDepthMaps = TRUE
    /\ addLandmarksToTheDensePointCloud = options.addLandmarksToTheDensePointCloud
    /\ sfmLoaded = FALSE
    /\ mp = [built |-> FALSE, seed |-> 0]
    /\ outDirectory = FALSE
    /\ hexah = "none"
    /\ cams = {}
    /\ denseCloud = NoDenseCloud
    /\ graphCutSeed = 0
    /\ mesh = NoMesh
    /\ outputs = {}

InitMeshing ==
    /\ SIdle
    /\ DIdle
    /\ options \in MeshingOptions
    /\ scene \in {sc \in Scenes : sc.camsInHexah \subseteq 0 .. sc.nbCameras - 1}
    /\ runNo = 1
    /\ firstRun = NoRun
    /\ MInitRun

----------------------------------------------------------------------------
(* Meshing run: the steps of aliceVision_main *)

MReturn(code, msg) ==
    /\ mpc' = "done"
    /\ exitStatus' = code
    /\ errorMsg' = msg

MGoto(where) ==
    /\ mpc' = where
    /\ UNCHANGED <<exitStatus, errorMsg>>

\* an options check that leaves addLandmarksToTheDensePointCloud as given
CheckInputOptionsAsGiven ==
    /\ mpc = "options"
    /\ IF options.depthMapsFolder = ""
       THEN IF /\ repartitionMode = eRepartitionMultiResolution
               /\ partitioningMode = ePartitioningSingleBlock
            THEN /\ meshingFromDepthMaps' = FALSE
                 /\ MGoto("load")
                 /\ UNCHANGED addLandmarksToTheDensePointCloud
            ELSE /\ MReturn("EXIT_FAILURE", "Invalid input options")
                 /\ UNCHANGED <<meshingFromDepthMaps, addLandmarksToTheDensePointCloud>>
       ELSE /\ MGoto("load")
            /\ UNCHANGED <<meshingFromDepthMaps, addLandmarksToTheDensePointCloud>>
    /\ UNCHANGED <<svars, dvars>>
    /\ UNCHANGED <<options, scene, runNo, firstRun, partitioningMode, repartitionMode,
                   sfmLoaded, mp, outDirectory, hexah, cams, denseCloud, graphCutSeed,
                   mesh, outputs>>

\* meshing from the SfM alone needs singleBlock and multiResolution
CheckInputOptions ==
    /\ mpc = "options"
    /\ IF options.depthMapsFolder = ""
       THEN IF /\ repartitionMode = eRepartitionMultiResolution
               /\ partitioningMode = ePartitioningSingleBlock
            THEN /\ meshingFromDepthMaps' = FALSE
                 /\ addLandmarksToTheDensePointCloud' = TRUE
                 /\ MGoto("load")
            ELSE /\ MReturn("EXIT_FAILURE", "Invalid input options")
                 /\ UNCHANGED <<meshingFromDepthMaps, addLandmarksToTheDensePointCloud>>
       ELSE /\ MGoto("load")
            /\ UNCHANGED <<meshingFromDepthMaps, addLandmarksToTheDensePointCloud>>
    /\ UNCHANGED <<svars, dvars>>
    /\ UNCHANGED <<options, scene, runNo, firstRun, partitioningMode, repartitionMode,
                   sfmLoaded, mp, outDirectory, hexah, cams, denseCloud, graphCutSeed,
                   mesh, outputs>>

\* read the input SfM scene
LoadInputScene ==
    /\ mpc = "load"
    /\ IF ~scene.readable
       THEN /\ MReturn("EXIT_FAILURE", "The input SfMData file cannot be read")
            /\ UNCHANGED sfmLoaded
       ELSE /\ sfmLoaded' = TRUE
            /\ MGoto("init")
    /\ UNCHANGED <<svars, dvars>>
    /\ UNCHANGED <<options, scene, runNo, firstRun, partitioningMode, repartitionMode,
                   meshingFromDepthMaps, addLandmarksToTheDensePointCloud, mp,
                   outDirectory, hexah, cams, denseCloud, graphCutSeed, mesh, outputs>>

\* a driver that does not hand the seed option to the graph cut
SeedPutDefault(seed) == 0

\* mp.userParams.put("delaunaycut.seed", seed)
SeedPut(seed) == seed

\* initialization: the MultiViewParams, the user parameters, the output directory
Initialization ==
    /\ mpc = "init"
    /\ mp' = [built |-> TRUE, seed |-> SeedPut(options.seed)]
    /\ outDirectory' = TRUE
    /\ MGoto("switch")
    /\ UNCHANGED <<svars, dvars>>
    /\ UNCHANGED <<options, scene, runNo, firstRun, partitioningMode, repartitionMode,
                   meshingFromDepthMaps, addLandmarksToTheDensePointCloud, sfmLoaded,
                   hexah, cams, denseCloud, graphCutSeed, mesh, outputs>>

\* switch(repartitionMode) and switch(partitioningMode)
SwitchMode ==
    /\ mpc = "switch"
    /\ IF repartitionMode = eRepartitionMultiResolution
       THEN IF partitioningMode = ePartitioningAuto
            THEN MReturn("invalid_argument",
                         "Meshing mode: 'multiResolution', partitioning: 'auto' is not yet implemented.")
            ELSE IF partitioningMode = ePartitioningSingleBlock
                 THEN MGoto("space")
                 ELSE MReturn("invalid_argument", "Partitioning mode is not defined")
       ELSE MReturn("invalid_argument", "Repartition mode is not defined")
    /\ UNCHANGED <<svars, dvars>>
    /\ UNCHANGED <<options, scene, runNo, firstRun, partitioningMode, repartitionMode,
                   meshingFromDepthMaps, addLandmarksToTheDensePointCloud, sfmLoaded, mp,
                   outDirectory, hexah, cams, denseCloud, graphCutSeed, mesh, outputs>>

\* the bounding volume and the camera list
DivideSpace ==
    /\ mpc = "space"
    /\ hexah' = IF meshingFromDepthMaps /\ ~options.estimateSpaceFromSfM
                THEN "DepthMaps" ELSE "SfM"
    /\ cams' = IF meshingFromDepthMaps
               THEN scene.camsInHexah
               ELSE 0 .. scene.nbCameras - 1
    /\ IF cams' = {}
       THEN MReturn("logic_error", "No camera to make the reconstruction")
       ELSE MGoto("dense")
    /\ UNCHANGED <<svars, dvars>>
    /\ UNCHANGED <<options, scene, runNo, firstRun, partitioningMode, repartitionMode,
                   meshingFromDepthMaps, addLandmarksToTheDensePointCloud, sfmLoaded, mp,
                   outDirectory, denseCloud, graphCutSeed, mesh, outputs>>

Min(a, b) == IF a < b THEN a ELSE b

\* the fusion, from the design: the points kept in a voxel are capped by the
\* per-voxel maximum of the fusion parameters, when they hold one
FusedPerVoxel(density, cap) == IF cap = <<>> THEN density ELSE Min(density, cap[1])

\* the per-voxel cap among the arguments of createDensePointCloud (hexah, cams,
\* sfmData, fuseParams), <<>> for none: maxPtsPerVoxel is stored in none of them
CapPassed(maxPtsPerVoxel) == <<>>

\* delaunayGC.createDensePointCloud(hexah, cams, sfmData or null, fuseParams or null)
CreateDensePointCloud ==
    /\ mpc = "dense"
    /\ denseCloud' =
          [created |-> TRUE,
           sfmData |-> addLandmarksToTheDensePointCloud,
           fuseParams |-> meshingFromDepthMaps,
           cap |-> IF meshingFromDepthMaps
                   THEN CapPassed(options.maxPointsPerVoxel) ELSE <<>>,
           fusedPerVoxel |-> IF meshingFromDepthMaps
                             THEN FusedPerVoxel(scene.density,
                                                CapPassed(options.maxPointsPerVoxel))
                             ELSE 0]
    /\ MGoto("raw")
    /\ UNCHANGED <<svars, dvars>>
    /\ UNCHANGED <<options, scene, runNo, firstRun, partitioningMode, repartitionMode,
                   meshingFromDepthMaps, addLandmarksToTheDensePointCloud, sfmLoaded, mp,
                   outDirectory, hexah, cams, graphCutSeed, mesh, outputs>>

\* if(saveRawDensePointCloud) in front of the graph cut
RawSavedBeforeCut(saveRaw) == saveRaw

\* Save dense point cloud before cut and filtering
SaveRawDensePointCloud ==
    /\ mpc = "raw"
    /\ outputs' = IF RawSavedBeforeCut(options.saveRawDensePointCloud)
                  THEN outputs \cup {"densePointCloud_raw.abc"}
                  ELSE outputs
    /\ MGoto("cut")
    /\ UNCHANGED <<svars, dvars>>
    /\ UNCHANGED <<options, scene, runNo, firstRun, partitioningMode, repartitionMode,
                   meshingFromDepthMaps, addLandmarksToTheDensePointCloud, sfmLoaded, mp,
                   outDirectory, hexah, cams, denseCloud, graphCutSeed, mesh>>

\* the meshes the graph cut, createMesh and meshPostProcessing can hand back:
\* null, or pts vertices and tris triangles, with ptsCams empty or one list
\* per vertex
MeshResults ==
    {NoMesh} \cup
    {m \in [isNull : {FALSE}, pts : 0 .. MaxMeshPts, tris : 0 .. MaxMeshPts,
             ptsCams : 0 .. MaxMeshPts] : m.ptsCams \in {0, m.pts}}

\* the seed the graph cut runs with: the seed handed to it, or a fresh random
\* seed when 0 is handed
EffectiveSeeds(seed) == IF seed = 0 THEN 1 .. MaxSeed ELSE {seed}

\* the graph cut is deterministic in its inputs and its seed: run again on the
\* same inputs with the seed of the first run, it makes the mesh of the first run
GraphCutResults(seed) ==
    IF runNo = 2 /\ firstRun.graphCutSeed = seed
    THEN {firstRun.mesh}
    ELSE MeshResults

\* createGraphCut, graphCutPostProcessing, createMesh, createPtsCams, meshPostProcessing
GraphCut ==
    /\ mpc = "cut"
    /\ \E seed \in EffectiveSeeds(mp.seed) :
          /\ graphCutSeed' = seed
          /\ mesh' \in GraphCutResults(seed)
    /\ MGoto("check")
    /\ UNCHANGED <<svars, dvars>>
    /\ UNCHANGED <<options, scene, runNo, firstRun, partitioningMode, repartitionMode,
                   meshingFromDepthMaps, addLandmarksToTheDensePointCloud, sfmLoaded, mp,
                   outDirectory, hexah, cams, denseCloud, outputs>>

\* checks that come after the output files are written
CheckMeshAfterOutput ==
    /\ mpc = "check"
    /\ outputs' = outputs \cup {"outputDensePointCloud", "outputMesh"}
    /\ IF mesh.isNull \/ mesh.pts = 0 \/ mesh.tris = 0
       THEN MReturn("runtime_error", "No valid mesh was generated.")
       ELSE IF mesh.ptsCams = 0
            THEN MReturn("runtime_error", "Points visibilities data has not been initialized.")
            ELSE MGoto("save")
    /\ UNCHANGED <<svars, dvars>>
    /\ UNCHANGED <<options, scene, runNo, firstRun, partitioningMode, repartitionMode,
                   meshingFromDepthMaps, addLandmarksToTheDensePointCloud, sfmLoaded, mp,
                   outDirectory, hexah, cams, denseCloud, graphCutSeed, mesh>>

\* the two checks in front of the output
CheckMesh ==
    /\ mpc = "check"
    /\ IF mesh.isNull \/ mesh.pts = 0 \/ mesh.tris = 0
       THEN MReturn("runtime_error", "No valid mesh was generated.")
       ELSE IF mesh.ptsCams = 0
            THEN MReturn("runtime_error", "Points visibilities data has not been initialized.")
            ELSE MGoto("save")
    /\ UNCHANGED <<svars, dvars>>
    /\ UNCHANGED <<options, scene, runNo, firstRun, partitioningMode, repartitionMode,
                   meshingFromDepthMaps, addLandmarksToTheDensePointCloud, sfmLoaded, mp,
                   outDirectory, hexah, cams, denseCloud, graphCutSeed, mesh, outputs>>

\* Save dense point cloud, save obj mesh file
SaveOutputs ==
    /\ mpc = "save"
    /\ outputs' = outputs \cup {"outputDensePointCloud", "outputMesh"}
    /\ MReturn("EXIT_SUCCESS", "")
    /\ UNCHANGED <<svars, dvars>>
    /\ UNCHANGED <<options, scene, runNo, firstRun, partitioningMode, repartitionMode,
                   meshingFromDepthMaps, addLandmarksToTheDensePointCloud, sfmLoaded, mp,
                   outDirectory, hexah, cams, denseCloud, graphCutSeed, mesh>>

MeshingStep ==
    \/ CheckInputOptions
    \/ LoadInputScene
    \/ Initialization
    \/ SwitchMode
    \/ DivideSpace
    \/ CreateDensePointCloud
    \/ SaveRawDensePointCloud
    \/ GraphCut
    \/ CheckMesh
    \/ SaveOutputs

NextMeshing == MeshingStep

SpecMeshing == InitMeshing /\ [][NextMeshing]_vars

\* the pipeline is run again on the same dataset with the same command line
Rerun ==
    /\ mpc = "done"
    /\ runNo = 1
    /\ runNo' = 2
    /\ firstRun' = [exitStatus |-> exitStatus, errorMsg |-> errorMsg, seed |-> mp.seed,
                    graphCutSeed |-> graphCutSeed, mesh |-> mesh, outputs |-> outputs]
    /\ mpc' = "options"
    /\ exitStatus' = "running"
    /\ errorMsg' = ""
    /\ meshingFromDepthMaps' = TRUE
    /\ addLandmarksToTheDensePointCloud' = options.addLandmarksToTheDensePointCloud
    /\ sfmLoaded' = FALSE
    /\ mp' = [built |-> FALSE, seed |-> 0]
    /\ outDirectory' = FALSE
    /\ hexah' = "none"
    /\ cams' = {}
    /\ denseCloud' = NoDenseCloud
    /\ graphCutSeed' = 0
    /\ mesh' = NoMesh
    /\ outputs' = {}
    /\ UNCHANGED <<svars, dvars>>
    /\ UNCHANGED <<options, scene, partitioningMode, repartitionMode>>

NextRerun == MeshingStep \/ Rerun

SpecRerun == InitMeshing /\ [][NextRerun]_vars

----------------------------------------------------------------------------
(* Meshing run: what the claims speak of *)

\* the run has ended with one of the domain errors
DomainError ==
    /\ mpc = "done"
    /\ errorMsg \in {"No camera to make the reconstruction",
                     "No valid mesh was generated.",
                     "Points visibilities data has not been initialized."}

\* C1 (as claimed): a run that ends with a domain error has written no output
\* file: neither the raw dense point cloud, nor the dense point cloud, nor the
\* mesh, whatever the options (saveRawDensePointCloud included).
C1_DomainErrorsWriteNothing ==
    DomainError => outputs = {}

\* C1 (amended): a run that ends with a domain error has written neither the
\* dense point cloud nor the mesh file; the raw dense point cloud has been
\* written exactly when saveRawDensePointCloud is set and the error is an
\* invalid mesh or an empty visibility table, which are found after the cut;
\* 'no camera' is found before it and leaves no file at all.
C1_DomainErrorsWriteNoFinalOutput ==
    DomainError =>
        /\ "outputDensePointCloud" \notin outputs
        /\ "outputMesh" \notin outputs
        /\ ("densePointCloud_raw.abc" \in outputs) <=>
              (/\ options.saveRawDensePointCloud
               /\ errorMsg # "No camera to make the reconstruction")

\* C1 witness: the run asked for the raw dense point cloud and ended with
\* 'No valid mesh was generated.'
C1_Witness ==
    /\ mpc = "done"
    /\ errorMsg = "No valid mesh was generated."
    /\ options.saveRawDensePointCloud
    /\ outputs = {"densePointCloud_raw.abc"}

UnsupportedModes ==
    \/ partitioningMode # ePartitioningSingleBlock
    \/ repartitionMode # eRepartitionMultiResolution

\* C2: an unsupported mode combination (partitioning 'auto' or undefined,
\* repartition undefined) is rejected before any computation begins: with or
\* without a depth-maps folder, the dataset is never loaded, the multi-view
\* parameters are never built and the output directory is never created, and
\* the run does not succeed.
C2_UnsupportedModesRejectedFirst ==
    UnsupportedModes =>
        /\ ~sfmLoaded
        /\ ~mp.built
        /\ ~outDirectory
        /\ exitStatus # "EXIT_SUCCESS"

\* C9: the value given for maxPointsPerVoxel is the per-voxel cap applied when
\* the dense point cloud is created from the depth maps, so that no voxel
\* holds more fused points than the option allows (at most one for 1).
C9_MaxPointsPerVoxelCapsFusion ==
    (denseCloud.created /\ denseCloud.fuseParams) =>
        /\ denseCloud.cap = <<options.maxPointsPerVoxel>>
        /\ denseCloud.fusedPerVoxel <= options.maxPointsPerVoxel

\* the re-run has ended as the first run did, with the same mesh
SameOutcome ==
    /\ exitStatus = firstRun.exitStatus
    /\ errorMsg = firstRun.errorMsg
    /\ mesh = firstRun.mesh

\* C10 (as claimed): two runs on the identical dataset, options and seed
\* option, for every value of the option (0 included), hand the same seed to
\* the graph cut and end with the same outcome and the same mesh.
C10_RerunIsIdentical ==
    (runNo = 2 /\ mpc = "done") =>
        /\ mp.seed = firstRun.seed
        /\ SameOutcome

\* C10 (amended): the seed handed to the graph cut is the value of the seed
\* option, the same in both runs; for every non-zero value of the option the
\* two runs cut with that seed and end with the same outcome and the same mesh.
\* With the seed 0 the graph cut draws a fresh random seed in each run, and the
\* outcome and the mesh may differ.
C10_RerunIsIdenticalForNonZeroSeed ==
    /\ mp.built => mp.seed = options.seed
    /\ (runNo = 2 /\ mpc = "done") =>
          /\ mp.seed = firstRun.seed
          /\ options.seed # 0 =>
                /\ graphCutSeed = firstRun.graphCutSeed
                /\ graphCutSeed \in {0, options.seed}
                /\ SameOutcome

\* C10 witness: a re-run with a non-zero seed that has ended with a mesh
C10_Witness ==
    /\ runNo = 2 /\ mpc = "done"
    /\ options.seed # 0
    /\ exitStatus = "EXIT_SUCCESS"
    /\ graphCutSeed = options.seed
    /\ mesh.pts > 0

----------------------------------------------------------------------------
(* The dense point cloud: createDenseSfMData, removeLandmarksWithoutObservations
   and the output part of aliceVision_main that applies them *)

DenseCams == 0 .. MaxDenseCams - 1
Points == 1 .. MaxCoord

\* mp.getViewId(cam): the view of a camera index, one view per camera
getViewId(cam) == 100 + cam

\* intrinsicPtr->project(pose, pt3D, true): the image point of pt3D, a function
\* of the intrinsic, the pose and the point
project(intrinsic, pose, pt3D) == <<intrinsic, pose, pt3D>>

\* the observation of point pt3D in a view of sfm: its projection with
\* distortion, no feature id, unknown scale
Observation(sfm, viewId, pt3D) ==
    [x |-> project(sfm.intrinsics[sfm.views[viewId].intrinsicId],
                   sfm.poses[sfm.views[viewId].poseId], pt3D),
     id_feat |-> "UndefinedIndexT", scale |-> 0]

\* the views, poses and intrinsics of the input: a posed view per camera, all
\* views with the one intrinsic
InputViews ==
    [v \in {getViewId(c) : c \in DenseCams} |-> [viewId |-> v, intrinsicId |-> 0, poseId |-> v]]

InputPoses == [v \in {getViewId(c) : c \in DenseCams} |-> <<"pose", v>>]

InputIntrinsics == [k \in {0} |-> "pinhole"]

\* a landmark of the input dataset: a described feature seen in the first view
InputLandmark ==
    [X |-> 0, descType |-> "SIFT",
     observations |-> [v \in {getViewId(0)} |->
                          [x |-> <<"feature", v>>, id_feat |-> 0, scale |-> 1]],
     rgb |-> "white"]

\* the input datasets: landmarks under some of the keys
InputSfMData ==
    {[views |-> InputViews, poses |-> InputPoses, intrinsics |-> InputIntrinsics,
      landmarks |-> [k \in keys |-> InputLandmark]] : keys \in SUBSET {0, MaxVertices}}

\* the vertices with, for each vertex, the cameras that see it (a camera
\* listed twice gives the same observation under the same key as listed once)
VerticesWithCams ==
    UNION {[vertices : [1..n -> Points], ptsCams : [1..n -> SUBSET DenseCams]] :
             n \in 0 .. MaxVertices}

\* the landmark made for vertex i (counted from 0): the key of an observation
\* is view.getViewId() of the view found under mp.getViewId(cam)
DenseLandmark(sfm, vertices, ptsCams, i) ==
    [X |-> vertices[i + 1], descType |-> "UNKNOWN",
     observations |-> [v \in {sfm.views[getViewId(cam)].viewId : cam \in ptsCams[i + 1]} |->
                          Observation(sfm, v, vertices[i + 1])],
     rgb |-> "white"]

\* a copy that keeps the landmarks of the input beside the new ones
createDenseSfMDataNoClear(sfm, vertices, ptsCams) ==
    [sfm EXCEPT !.landmarks =
        [k \in (DOMAIN sfm.landmarks) \cup (0 .. Len(vertices) - 1) |->
            IF k \in 0 .. Len(vertices) - 1
            THEN DenseLandmark(sfm, vertices, ptsCams, k)
            ELSE sfm.landmarks[k]]]

\* outSfmData = sfmData; the landmarks cleared; one landmark per vertex, keyed
\* by the vertex index, with an observation per camera of ptsCams[i]
createDenseSfMData(sfm, vertices, ptsCams) ==
    [sfm EXCEPT !.landmarks =
        [k \in 0 .. Len(vertices) - 1 |-> DenseLandmark(sfm, vertices, ptsCams, k)]]

\* Remove all landmarks without observations
removeLandmarksWithoutObservations(sfm) ==
    [sfm EXCEPT !.landmarks =
        [k \in {j \in DOMAIN sfm.landmarks : DOMAIN sfm.landmarks[j].observations # {}} |->
            sfm.landmarks[k]]]

\* sfmData::colorizeTracks, from the design: a landmark takes the colour of the
\* image points that observe it; one without observation keeps its colour
colorizeTracks(sfm) ==
    [sfm EXCEPT !.landmarks =
        [k \in DOMAIN sfm.landmarks |->
            IF DOMAIN sfm.landmarks[k].observations = {}
            THEN sfm.landmarks[k]
            ELSE [sfm.landmarks[k] EXCEPT !.rgb = <<"colour", sfm.landmarks[k].X>>]]]

InitDense ==
    /\ SIdle
    /\ MIdle
    /\ \E sfm \in InputSfMData, vc \in VerticesWithCams, col \in BOOLEAN :
          dIn = [sfmData |-> sfm, vertices |-> vc.vertices, ptsCams |-> vc.ptsCams,
                 colorizeOutput |-> col]
    /\ dpc = "create"
    /\ densePointCloud = EmptySfMData
    /\ meshColors = <<>>
    /\ savedDense = <<>>

\* createDenseSfMData(sfmData, mp, mesh->pts.getData(), ptsCams, densePointCloud)
CreateDense ==
    /\ dpc = "create"
    /\ densePointCloud' = createDenseSfMData(dIn.sfmData, dIn.vertices, dIn.ptsCams)
    /\ dpc' = "colorize"
    /\ UNCHANGED <<svars, mvars>>
    /\ UNCHANGED <<dIn, meshColors, savedDense>>

\* the colours read for the mesh vertices 0 .. n-1 from the landmarks:
\* colors.resize(n, {0, 0, 0}), then colors[i] = landmarks.at(i).rgb
\* in turn until a key is missing
ReadColours(landmarks, n) ==
    [i \in 1 .. n |->
        IF \A j \in 0 .. i - 1 : j \in DOMAIN landmarks
        THEN landmarks[i - 1].rgb
        ELSE "black"]

\* a driver that filters the landmarks first and colours the mesh afterwards
ColorizeAfterFiltering ==
    /\ dpc = "colorize"
    /\ IF dIn.colorizeOutput
       THEN LET coloured == removeLandmarksWithoutObservations(colorizeTracks(densePointCloud))
                n == Len(dIn.vertices)
            IN /\ densePointCloud' = coloured
               /\ meshColors' = ReadColours(coloured.landmarks, n)
               /\ dpc' = IF \A i \in 0 .. n - 1 : i \in DOMAIN coloured.landmarks
                         THEN "remove" ELSE "out_of_range"
       ELSE /\ dpc' = "remove"
            /\ UNCHANGED <<densePointCloud, meshColors>>
    /\ UNCHANGED <<svars, mvars>>
    /\ UNCHANGED <<dIn, savedDense>>

\* if(colorizeOutput): colorize the tracks, then the mesh, before the
\* landmarks filtering; landmarks.at(i) throws std::out_of_range for a
\* missing key, which ends the run
ColorizeOutput ==
    /\ dpc = "colorize"
    /\ IF dIn.colorizeOutput
       THEN LET coloured == colorizeTracks(densePointCloud)
                n == Len(dIn.vertices)
            IN /\ densePointCloud' = coloured
               /\ meshColors' = ReadColours(coloured.landmarks, n)
               /\ dpc' = IF \A i \in 0 .. n - 1 : i \in DOMAIN coloured.landmarks
                         THEN "remove" ELSE "out_of_range"
       ELSE /\ dpc' = "remove"
            /\ UNCHANGED <<densePointCloud, meshColors>>
    /\ UNCHANGED <<svars, mvars>>
    /\ UNCHANGED <<dIn, savedDense>>

\* removeLandmarksWithoutObservations(densePointCloud)
RemoveLandmarks ==
    /\ dpc = "remove"
    /\ densePointCloud' = removeLandmarksWithoutObservations(densePointCloud)
    /\ dpc' = "save"
    /\ UNCHANGED <<svars, mvars>>
    /\ UNCHANGED <<dIn, meshColors, savedDense>>

\* sfmDataIO::Save(densePointCloud, outputDensePointCloud, ALL_DENSE)
SaveDense ==
    /\ dpc = "save"
    /\ savedDense' = <<densePointCloud>>
    /\ dpc' = "done"
    /\ UNCHANGED <<svars, mvars>>
    /\ UNCHANGED <<dIn, densePointCloud, meshColors>>

NextDense ==
    \/ CreateDense
    \/ ColorizeOutput
    \/ RemoveLandmarks
    \/ SaveDense

SpecDense == InitDense /\ [][NextDense]_vars

\* the vertex indices with a non-empty camera list
SeenVertices == {i \in 0 .. Len(dIn.vertices) - 1 : dIn.ptsCams[i + 1] # {}}

\* C8: after createDenseSfMData and removeLandmarksWithoutObservations the
\* dense point cloud holds a landmark under key i exactly when vertex i has a
\* non-empty camera list; the landmark has the position of vertex i and one
\* observation for the view of every camera of ptsCams[i] and no other; no
\* landmark of the input is left; the views, poses and intrinsics are those of
\* the input.  The saved
\* dense point cloud is this one.
C8_DenseCloudIsSeenVertices ==
    dpc \in {"save", "done"} =>
        /\ DOMAIN densePointCloud.landmarks = SeenVertices
        /\ \A i \in DOMAIN densePointCloud.landmarks :
              /\ densePointCloud.landmarks[i].X = dIn.vertices[i + 1]
              /\ densePointCloud.landmarks[i].descType = "UNKNOWN"
              /\ DOMAIN densePointCloud.landmarks[i].observations =
                    {getViewId(cam) : cam \in dIn.ptsCams[i + 1]}
              /\ \A v \in DOMAIN densePointCloud.landmarks[i].observations :
                    densePointCloud.landmarks[i].observations[v].x =
                        <<"pinhole", <<"pose", v>>, dIn.vertices[i + 1]>>
        /\ densePointCloud.views = dIn.sfmData.views
        /\ densePointCloud.poses = dIn.sfmData.poses
        /\ densePointCloud.intrinsics = dIn.sfmData.intrinsics
        /\ dpc = "done" => savedDense = <<densePointCloud>>

\* C8 witness: the saved cloud of a mesh with a seen and an unseen vertex, made
\* from a dataset that had landmarks under a vertex key and under another key
C8_Witness ==
    /\ dpc = "done"
    /\ Len(dIn.vertices) = 2
    /\ dIn.ptsCams[1] = {} /\ dIn.ptsCams[2] = DenseCams
    /\ DOMAIN dIn.sfmData.landmarks = {0, MaxVertices}
    /\ DOMAIN savedDense[1].landmarks = {1}

----------------------------------------------------------------------------
(* Sampling run: the range selection *)

\* the dataset passes the checks in front of the range selection (with no
\* intrinsic the read of width and height is undefined and the run may go on)
ReachesRange ==
    /\ sfmData.readable
    /\ sfmData.intrinsics <= 1
    /\ sfmData.bracketsOk
    /\ Cardinality(SizeOfGroups) = 1
    /\ SizeOfGroups # {1}

\* the selector that is to be refused: rangeStart other than -1 and negative,
\* rangeSize negative with rangeStart other than -1, or rangeStart > G
IncorrectRange(r) ==
    /\ optRange[r].start # -1
    /\ \/ optRange[r].start < 0
       \/ optRange[r].size < 0
       \/ optRange[r].start > NbGroups

RangeRejected(r) ==
    \E i \in 1..Len(errorLog[r]) : errorLog[r][i].msg = "Range is incorrect"

InLoop(r) == spc[r] \in {"loop", "extract", "open", "write"}

\* C11: range selection never indexes outside the group list.  For every
\* rangeStart, rangeSize and group count: an incorrect selector ends the run
\* with 'Range is incorrect' and failure before the loop, and no other selector
\* does; otherwise every group index used in the loop is in 0 .. G-1 (the
\* access groupedViews[groupIdx] never goes wrong), the int sum
\* rangeStart + rangeSize of the loop condition stays within 0 .. G;
\* rangeStart = -1 selects all groups whatever rangeSize is; rangeStart = G
\* processes no group and returns success.
C11_RangeNeverIndexesOutside ==
    \A r \in Active :
        ReachesRange =>
            /\ sfmData.intrinsics = 1 => status[r] # "crash"
            /\ status[r] = "crash" => processed[r] = <<>> /\ rangeStart[r] = optRange[r].start
            /\ RangeRejected(r) =>
                  /\ IncorrectRange(r)
                  /\ spc[r] = "done" /\ status[r] = "EXIT_FAILURE"
                  /\ processed[r] = <<>>
            /\ IncorrectRange(r) =>
                  /\ ~InLoop(r)
                  /\ processed[r] = <<>>
                  /\ (spc[r] = "done" /\ status[r] # "crash") => RangeRejected(r)
            /\ InLoop(r) =>
                  /\ 0 <= rangeStart[r] /\ rangeStart[r] <= groupIdx[r]
                  /\ 0 <= rangeSize[r] /\ rangeSize[r] <= NbGroups - rangeStart[r]
                  /\ groupIdx[r] - rangeStart[r] <= rangeSize[r]
                  /\ Add32(rangeStart[r], rangeSize[r]) = rangeStart[r] + rangeSize[r]
            /\ spc[r] \in {"extract", "open", "write"} =>
                  /\ groupIdx[r] < NbGroups
                  /\ processed[r][Len(processed[r])] = groupIdx[r]
            /\ \A g \in SeqRange(processed[r]) : 0 <= g /\ g < NbGroups
            /\ (optRange[r].start = -1 /\ InLoop(r)) =>
                  rangeStart[r] = 0 /\ rangeSize[r] = NbGroups
            /\ (optRange[r].start = -1 /\ spc[r] = "done" /\ status[r] = "EXIT_SUCCESS") =>
                  processed[r] = [i \in 1..NbGroups |-> i - 1]
            /\ (optRange[r].start = NbGroups /\ optRange[r].size >= 0) =>
                  /\ processed[r] = <<>>
                  /\ (spc[r] = "done" /\ status[r] # "crash") => status[r] = "EXIT_SUCCESS"

\* C11 witness: rangeStart = 1 with rangeSize = INT_MAX, whose int sum
\* overflows: the run has processed the groups 1 .. G-1 and returned success
C11_Witness ==
    /\ ReachesRange /\ NbGroups >= 3
    /\ optRange[1] = [start |-> 1, size |-> INT_MAX]
    /\ spc[1] = "done" /\ status[1] = "EXIT_SUCCESS"
    /\ processed[1] = [i \in 1..(NbGroups - 1) |-> i]

----------------------------------------------------------------------------
(* Meshing run with no depth-maps folder *)

\* partitioning 'singleBlock' and repartition 'multiResolution'
SfMOnlyModes ==
    /\ EPartitioning_stringToEnum(options.partitioning) = ePartitioningSingleBlock
    /\ ERepartitionMode_stringToEnum(options.repartition) = eRepartitionMultiResolution

\* the run has divided the space and made its camera list
SpaceDivided ==
    \/ mpc \in {"dense", "raw", "cut", "check", "save"}
    \/ mpc = "done" /\ hexah # "none"

\* C12: with no depth-maps folder the run is accepted only with partitioning
\* 'singleBlock' and repartition 'multiResolution', and otherwise fails with
\* 'Invalid input options' before the dataset is read; an accepted run,
\* whatever addLandmarksToTheDensePointCloud and estimateSpaceFromSfM are,
\* passes the SfM landmarks and no fusion parameters to the dense point cloud
\* creation, estimates the bounding volume from the SfM and takes all cameras
\* 0 .. N-1; it fails with 'No camera to make the reconstruction' exactly
\* when N = 0.
C12_SfMOnlyRun ==
    options.depthMapsFolder = "" =>
        /\ ~SfMOnlyModes =>
              /\ mpc \in {"options", "done"}
              /\ ~sfmLoaded /\ ~mp.built /\ ~outDirectory /\ outputs = {}
              /\ mpc = "done" =>
                    exitStatus = "EXIT_FAILURE" /\ errorMsg = "Invalid input options"
        /\ SfMOnlyModes =>
              /\ errorMsg # "Invalid input options"
              /\ mpc # "options" =>
                    ~meshingFromDepthMaps /\ addLandmarksToTheDensePointCloud
              /\ mpc \notin {"options", "load"} => (sfmLoaded <=> scene.readable)
              /\ SpaceDivided =>
                    /\ hexah = "SfM"
                    /\ cams = 0 .. scene.nbCameras - 1
                    /\ (errorMsg = "No camera to make the reconstruction")
                          <=> (scene.nbCameras = 0)
                    /\ scene.nbCameras = 0 => mpc = "done" /\ exitStatus = "logic_error"
              /\ errorMsg = "No camera to make the reconstruction" => SpaceDivided
              /\ denseCloud.created =>
                    /\ denseCloud.sfmData
                    /\ ~denseCloud.fuseParams
                    /\ scene.nbCameras > 0

\* C12 witness: no depth-maps folder, the landmarks option off and the space
\* option off: the dense point cloud is created from the SfM landmarks
C12_Witness ==
    /\ options.depthMapsFolder = ""
    /\ ~options.addLandmarksToTheDensePointCloud
    /\ ~options.estimateSpaceFromSfM
    /\ denseCloud.created /\ denseCloud.sfmData /\ ~denseCloud.fuseParams
    /\ hexah = "SfM"
    /\ cams = 0 .. scene.nbCameras - 1

----------------------------------------------------------------------------
(* The colours of the mesh vertices *)

\* the dense point cloud as it is when the colours are read: made from the
\* inputs and colorized, not yet filtered
CloudWhenColoursRead ==
    colorizeTracks(createDenseSfMData(dIn.sfmData, dIn.vertices, dIn.ptsCams))

\* C13: when colorizeOutput is set the mesh colours are assigned before the
\* landmarks without observations are removed: reading the colours never
\* misses a landmark; right after the read a landmark with key i exists for
\* every mesh vertex index i and colour i is its colour; from then on the
\* colour list has as many entries as the mesh has vertices and colour i is
\* the colour landmark i had at the read, also for the vertices with an
\* empty camera list, whose landmark is dropped afterwards.
C13_ColoursBeforeFiltering ==
    dIn.colorizeOutput =>
        /\ dpc # "out_of_range"
        /\ dpc = "remove" =>
              /\ DOMAIN densePointCloud.landmarks = 0 .. Len(dIn.vertices) - 1
              /\ \A i \in 1 .. Len(dIn.vertices) :
                    meshColors[i] = densePointCloud.landmarks[i - 1].rgb
        /\ dpc \in {"remove", "save", "done"} =>
              /\ Len(meshColors) = Len(dIn.vertices)
              /\ \A i \in 1 .. Len(dIn.vertices) :
                    /\ meshColors[i] = CloudWhenColoursRead.landmarks[i - 1].rgb
                    /\ (i - 1) \in DOMAIN densePointCloud.landmarks =>
                          meshColors[i] = densePointCloud.landmarks[i - 1].rgb
        /\ dpc \in {"save", "done"} =>
              DOMAIN densePointCloud.landmarks = SeenVertices

\* C13 witness: a coloured mesh of two vertices, the first seen by no camera:
\* its landmark is dropped from the saved cloud and its colour is kept
C13_Witness ==
    /\ dIn.colorizeOutput
    /\ dpc = "done"
    /\ Len(dIn.vertices) = 2
    /\ dIn.ptsCams[1] = {} /\ dIn.ptsCams[2] # {}
    /\ Len(meshColors) = 2
    /\ DOMAIN savedDense[1].landmarks = {1}
    /\ meshColors[2] = savedDense[1].landmarks[1].rgb

----------------------------------------------------------------------------
(* Sampling run: the read of width and height *)

\* the run is past the check of the intrinsic count without a failure status:
\* it has read width and height through getIntrinsics().begin()
WidthHeightRead(r) ==
    /\ sfmData.readable
    /\ spc[r] \notin {"off", "load", "intrinsics"}
    /\ ~(/\ spc[r] = "done" /\ status[r] = "EXIT_FAILURE"
         /\ errorLog[r] # <<>> /\ errorLog[r][1].msg = "Only one intrinsic allowed")

\* C14: width and height are read from the dataset's intrinsic only when the
\* dataset holds exactly one: a run that has made the read has exactly one
\* intrinsic, and with any other count (0, or more than one) the run has
\* ended with a failure status in front of the read.
C14_WidthReadWithOneIntrinsic ==
    \A r \in Active :
        /\ WidthHeightRead(r) => sfmData.intrinsics = 1
        /\ (sfmData.readable /\ sfmData.intrinsics # 1 /\ spc[r] = "done") =>
              status[r] = "EXIT_FAILURE"

====
